---- MODULE Spec2Model ----
(***************************************************************************)
(* Frame handoff and input snapshot of src/src/sdl_backend.cpp.            *)
(*                                                                         *)
(* Three execution contexts run concurrently:                              *)
(*   the emulation thread  put_pixel, draw_frame, handle_ui_keys           *)
(*   the SDL thread        sdl_thread (with process_events)                *)
(*   the shutdown caller   exit_sdl_thread                                 *)
(* A step of the model is one access to shared memory or one lock          *)
(* operation; a critical section's body is one step, taken with the lock   *)
(* held.                                                                   *)
(*                                                                         *)
(* The emulation thread paints every pixel of the frame it is drawing      *)
(* with the number of that frame (a pattern unique to each draw_frame      *)
(* call), so the content of a buffer tells for which frame each of its     *)
(* pixels was written.                                                     *)
(***************************************************************************)
EXTENDS Integers, FiniteSets, Sequences, TLC

\* ---------------------------------------------------------------- bounds
\* draw_frame is called at most MaxFrames times.
MaxFrames == 2

\* ------------------------------------------------------------- constants
ScreenW == 256
ScreenH == 240
SDL_SCANCODE_ESCAPE == 41
SDL_SCANCODE_F3 == 60

\* The scancodes of the keyboard state array that the model tracks.
Scancodes == {SDL_SCANCODE_ESCAPE, SDL_SCANCODE_F3}
KeyArrays == [Scancodes -> {0, 1}]

\* The coordinates put_pixel is called with: the last pixel, and one past
\* the bound in x and in y.
PixelInputs == {<<ScreenW - 1, ScreenH - 1>>,
                <<ScreenW, ScreenH - 1>>, <<ScreenW - 1, ScreenH>>}

\* Index of pixel (x, y) in a render buffer.
PixelIndex(x, y) == ScreenW * y + x

\* Number of cells of one render buffer: render_buffers[2][240*256].
BufferCells == ScreenH * ScreenW

\* The cells of a render buffer that the model tracks.
Cells == {PixelIndex(p[1], p[2]) : p \in {q \in PixelInputs : q[1] < ScreenW /\ q[2] < ScreenH}}

VARIABLES
    render_buffers,           \* render_buffers[b][cell], b \in {0, 1}
    back_buffer,              \* index of the buffer put_pixel writes
    front_buffer,             \* index of the buffer the SDL thread uploads
    frame_lock,               \* owner of frame_lock, or "free"
    ready_to_draw_new_frame,
    frame_available,
    pending_sdl_thread_exit,
    event_lock,               \* owner of event_lock, or "free"
    keys,                     \* SDL's keyboard state array
    keys_lf,                  \* last frame's copy of keys
    copy_i,                   \* scancodes memcpy has still to copy
    pcE,                      \* emulation thread
    pcP,                      \* SDL thread
    pcR,                      \* caller of exit_sdl_thread
    halted,                   \* the process has exited (exit, failed assert)
    \* history variables
    pubSeq,                   \* number of draw_frame calls that took the lock
    frontSeq,                 \* the draw_frame call that made the front buffer
    shown,                    \* the draw_frame call whose frame was last taken
    prevShown,                \* the one taken before that
    signals,                  \* number of SDL_CondSignal calls
    keys_seen,                \* the values keys has had since memcpy started
    prevFrontSeq,             \* the draw_frame call that made the previous front buffer
    keys_read,                \* keys as the last edge queries read it; {} before the first
    pe_calls,                 \* process_events calls since the last frame was taken
    edge_report               \* per scancode, <<KEY_PRESSED, KEY_RELEASED>> as evaluated

vars == <<render_buffers, back_buffer, front_buffer, frame_lock,
          ready_to_draw_new_frame, frame_available, pending_sdl_thread_exit,
          event_lock, keys, keys_lf, copy_i, pcE, pcP, pcR, halted,
          pubSeq, frontSeq, shown, prevShown, signals, keys_seen,
          prevFrontSeq, keys_read, pe_calls, edge_report>>

frameVars == <<back_buffer, front_buffer, ready_to_draw_new_frame,
               frame_available>>
histVars  == <<pubSeq, frontSeq, shown, prevShown, signals, keys_seen,
               prevFrontSeq, keys_read, pe_calls, edge_report>>

\* ------------------------------------------------------------------ init
\* State after init_sdl: the two render buffers are static storage (zero),
\* the flags are static bools (false), keys_lf is realloc'ed and never
\* written, so it holds any value.
Init ==
    /\ render_buffers = [b \in {0, 1} |-> [c \in Cells |-> 0]]
    /\ back_buffer = 0
    /\ front_buffer = 1
    /\ frame_lock = "free"
    /\ ready_to_draw_new_frame = FALSE
    /\ frame_available = FALSE
    /\ pending_sdl_thread_exit = FALSE
    /\ event_lock = "free"
    /\ keys = [k \in Scancodes |-> 0]
    /\ keys_lf \in KeyArrays
    /\ copy_i = {}
    /\ pcE = "idle"
    /\ pcP = "lock"
    /\ pcR = "idle"
    /\ halted = FALSE
    /\ pubSeq = 0
    /\ frontSeq = 0
    /\ shown = 0
    /\ prevShown = 0
    /\ signals = 0
    /\ keys_seen = {}
    /\ prevFrontSeq = 0
    /\ keys_read = {}
    /\ pe_calls = 0
    /\ edge_report = [k \in Scancodes |-> <<0, 0>>]

\* ------------------------------------------------------------- primitives
\* SDL_LockMutex / SDL_UnlockMutex on a mutex with owner `owner`.
Held(owner, t) == owner = t
Free(owner) == owner = "free"

\* A signal that wakes nobody.
CondSignal_lost ==
    /\ pcP' = pcP
    /\ signals' = signals + 1

\* SDL_CondSignal(frame_available_cond): wakes the SDL thread when it is
\* blocked in SDL_CondWait; a signal with no waiter is lost.
CondSignal ==
    /\ pcP' = IF pcP = "wait" THEN "woken" ELSE pcP
    /\ signals' = signals + 1

\* A swap written without its temporary.
swap_without_temporary ==
    /\ back_buffer' = front_buffer
    /\ front_buffer' = front_buffer

\* swap(back_buffer, front_buffer)
swap ==
    /\ back_buffer' = front_buffer
    /\ front_buffer' = back_buffer

\* ------------------------------------------------------ emulation thread
\* put_pixel with the two bounds exchanged in its asserts.
put_pixel_bounds_exchanged(x, y) ==
    /\ ~halted /\ pcE = "idle"
    /\ IF x < ScreenH /\ y < ScreenW
       THEN /\ render_buffers' =
                   [render_buffers EXCEPT ![back_buffer][PixelIndex(x, y)] = pubSeq + 1]
            /\ UNCHANGED halted
       ELSE /\ halted' = TRUE
            /\ UNCHANGED render_buffers
    /\ UNCHANGED <<frameVars, frame_lock, pending_sdl_thread_exit, event_lock,
                   keys, keys_lf, copy_i, pcE, pcP, pcR, histVars>>

\* put_pixel storing into the front buffer.
put_pixel_into_front(x, y) ==
    /\ ~halted /\ pcE = "idle"
    /\ IF x < ScreenW /\ y < ScreenH
       THEN /\ render_buffers' =
                   [render_buffers EXCEPT ![front_buffer][PixelIndex(x, y)] = pubSeq + 1]
            /\ UNCHANGED halted
       ELSE /\ halted' = TRUE
            /\ UNCHANGED render_buffers
    /\ UNCHANGED <<frameVars, frame_lock, pending_sdl_thread_exit, event_lock,
                   keys, keys_lf, copy_i, pcE, pcP, pcR, histVars>>

\* put_pixel(x, y, color): the two asserts, then the store into the back
\* buffer. A failed assert aborts the process.
put_pixel(x, y) ==
    /\ ~halted /\ pcE = "idle"
    /\ IF x < ScreenW /\ y < ScreenH
       THEN /\ render_buffers' =
                   [render_buffers EXCEPT ![back_buffer][PixelIndex(x, y)] = pubSeq + 1]
            /\ UNCHANGED halted
       ELSE /\ halted' = TRUE
            /\ UNCHANGED render_buffers
    /\ UNCHANGED <<frameVars, frame_lock, pending_sdl_thread_exit, event_lock,
                   keys, keys_lf, copy_i, pcE, pcP, pcR, histVars>>

\* draw_frame is called.
draw_frame_call ==
    /\ ~halted /\ pcE = "idle" /\ pubSeq < MaxFrames
    /\ pcE' = "df_lock"
    /\ UNCHANGED <<render_buffers, frameVars, frame_lock, pending_sdl_thread_exit,
                   event_lock, keys, keys_lf, copy_i, pcP, pcR, halted, histVars>>

\* SDL_LockMutex(frame_lock)
draw_frame_lock ==
    /\ ~halted /\ pcE = "df_lock" /\ Free(frame_lock)
    /\ frame_lock' = "E"
    /\ pcE' = "df_cs"
    /\ UNCHANGED <<render_buffers, frameVars, pending_sdl_thread_exit,
                   event_lock, keys, keys_lf, copy_i, pcP, pcR, halted, histVars>>

\* draw_frame without the test of ready_to_draw_new_frame: no frame is
\* ever dropped.
draw_frame_publish_always ==
    /\ ~halted /\ pcE = "df_cs" /\ Held(frame_lock, "E")
    /\ pubSeq' = pubSeq + 1
    /\ frame_available' = TRUE
    /\ swap
    /\ CondSignal
    /\ frontSeq' = pubSeq + 1
    /\ prevFrontSeq' = frontSeq
    /\ pcE' = "df_unlock"
    /\ UNCHANGED <<render_buffers, ready_to_draw_new_frame, frame_lock,
                   pending_sdl_thread_exit, event_lock, keys, keys_lf, copy_i,
                   pcR, halted, shown, prevShown, keys_seen, keys_read, pe_calls,
                   edge_report>>

\* if (ready_to_draw_new_frame) { frame_available = true; swap; signal }
draw_frame_publish ==
    /\ ~halted /\ pcE = "df_cs" /\ Held(frame_lock, "E")
    /\ pubSeq' = pubSeq + 1
    /\ IF ready_to_draw_new_frame
       THEN /\ frame_available' = TRUE
            /\ swap
            /\ CondSignal
            /\ frontSeq' = pubSeq + 1
            /\ prevFrontSeq' = frontSeq
       ELSE UNCHANGED <<frame_available, back_buffer, front_buffer, pcP,
                        signals, frontSeq, prevFrontSeq>>
    /\ pcE' = "df_unlock"
    /\ UNCHANGED <<render_buffers, ready_to_draw_new_frame, frame_lock,
                   pending_sdl_thread_exit, event_lock, keys, keys_lf, copy_i,
                   pcR, halted, shown, prevShown, keys_seen, keys_read, pe_calls,
                   edge_report>>

\* SDL_UnlockMutex(frame_lock)
draw_frame_unlock ==
    /\ ~halted /\ pcE = "df_unlock" /\ Held(frame_lock, "E")
    /\ frame_lock' = "free"
    /\ pcE' = "idle"
    /\ UNCHANGED <<render_buffers, frameVars, pending_sdl_thread_exit,
                   event_lock, keys, keys_lf, copy_i, pcP, pcR, halted, histVars>>

\* handle_ui_keys is called.
handle_ui_keys_call ==
    /\ ~halted /\ pcE = "idle"
    /\ pcE' = "ui_lock"
    /\ UNCHANGED <<render_buffers, frameVars, frame_lock, pending_sdl_thread_exit,
                   event_lock, keys, keys_lf, copy_i, pcP, pcR, halted, histVars>>

\* SDL_LockMutex(event_lock)
handle_ui_keys_lock ==
    /\ ~halted /\ pcE = "ui_lock" /\ Free(event_lock)
    /\ event_lock' = "E"
    /\ pcE' = "ui_keys"
    /\ UNCHANGED <<render_buffers, frameVars, frame_lock, pending_sdl_thread_exit,
                   keys, keys_lf, copy_i, pcP, pcR, halted, histVars>>

\* The key queries made with event_lock held; escape is the value read
\* from keys[SDL_SCANCODE_ESCAPE]. Escape exits the process; the other
\* queries act on collaborators outside this file.
handle_ui_keys_query(escape) ==
    /\ ~halted /\ pcE = "ui_keys" /\ Held(event_lock, "E")
    /\ IF escape = 1
       THEN halted' = TRUE /\ UNCHANGED <<pcE, keys_read>>
       ELSE pcE' = "ui_unlock" /\ keys_read' = {keys} /\ UNCHANGED halted
    /\ UNCHANGED <<render_buffers, frameVars, frame_lock, pending_sdl_thread_exit,
                   event_lock, keys, keys_lf, copy_i, pcP, pcR, pubSeq, frontSeq,
                   shown, prevShown, signals, keys_seen, prevFrontSeq, pe_calls,
                   edge_report>>

\* SDL_UnlockMutex(event_lock); memcpy starts after it (keys_size is not 0).
handle_ui_keys_unlock ==
    /\ ~halted /\ pcE = "ui_unlock" /\ Held(event_lock, "E")
    /\ event_lock' = "free"
    /\ pcE' = "ui_copy"
    /\ copy_i' = Scancodes
    /\ keys_seen' = {keys}
    /\ UNCHANGED <<render_buffers, frameVars, frame_lock, pending_sdl_thread_exit,
                   keys, keys_lf, pcP, pcR, halted, pubSeq, frontSeq, shown, prevShown,
                   signals, prevFrontSeq, keys_read, pe_calls, edge_report>>

\* memcpy(keys_lf, keys, keys_size): one byte per step; it races with the
\* update of keys in process_events, so each byte is the value keys has
\* when that byte is copied.
handle_ui_keys_memcpy ==
    /\ ~halted /\ pcE = "ui_copy"
    /\ \E k \in copy_i :
          /\ keys_lf' = [keys_lf EXCEPT ![k] = keys[k]]
          /\ copy_i' = copy_i \ {k}
          /\ pcE' = IF copy_i = {k} THEN "idle" ELSE "ui_copy"
          /\ keys_seen' = IF copy_i = {k} THEN {} ELSE keys_seen
    /\ UNCHANGED <<render_buffers, frameVars, frame_lock, pending_sdl_thread_exit,
                   event_lock, keys, pcP, pcR, halted, pubSeq, frontSeq, shown,
                   prevShown, signals, prevFrontSeq, keys_read, pe_calls,
                   edge_report>>

\* ------------------------------------------------------------ SDL thread
\* SDL_LockMutex(frame_lock) at the top of the loop
sdl_thread_lock ==
    /\ ~halted /\ pcP = "lock" /\ Free(frame_lock)
    /\ frame_lock' = "P"
    /\ pcP' = "ready"
    /\ UNCHANGED <<render_buffers, frameVars, pending_sdl_thread_exit, event_lock,
                   keys, keys_lf, copy_i, pcE, pcR, halted, histVars>>

\* ready_to_draw_new_frame = true
sdl_thread_ready ==
    /\ ~halted /\ pcP = "ready" /\ Held(frame_lock, "P")
    /\ ready_to_draw_new_frame' = TRUE
    /\ pcP' = "loop"
    /\ UNCHANGED <<render_buffers, back_buffer, front_buffer, frame_available,
                   frame_lock, pending_sdl_thread_exit, event_lock, keys, keys_lf,
                   copy_i, pcE, pcR, halted, histVars>>

\* A wait that keeps frame_lock while it is blocked.
sdl_thread_wait_holding ==
    /\ ~halted /\ pcP = "loop" /\ Held(frame_lock, "P")
    /\ pcP' = IF ~frame_available /\ ~pending_sdl_thread_exit THEN "wait" ELSE "take"
    /\ UNCHANGED <<render_buffers, frameVars, frame_lock, pending_sdl_thread_exit,
                   event_lock, keys, keys_lf, copy_i, pcE, pcR, halted, histVars>>

\* while (!frame_available && !pending_sdl_thread_exit) SDL_CondWait(...):
\* the test, and the entry into SDL_CondWait, which releases frame_lock.
sdl_thread_wait ==
    /\ ~halted /\ pcP = "loop" /\ Held(frame_lock, "P")
    /\ IF ~frame_available /\ ~pending_sdl_thread_exit
       THEN frame_lock' = "free" /\ pcP' = "wait"
       ELSE pcP' = "take" /\ UNCHANGED frame_lock
    /\ UNCHANGED <<render_buffers, frameVars, pending_sdl_thread_exit, event_lock,
                   keys, keys_lf, copy_i, pcE, pcR, halted, histVars>>

\* SDL_CondWait may return without a signal.
sdl_thread_spurious ==
    /\ ~halted /\ pcP = "wait"
    /\ pcP' = "woken"
    /\ UNCHANGED <<render_buffers, frameVars, frame_lock, pending_sdl_thread_exit,
                   event_lock, keys, keys_lf, copy_i, pcE, pcR, halted, histVars>>

\* SDL_CondWait returns: it takes frame_lock again.
sdl_thread_woken ==
    /\ ~halted /\ pcP = "woken" /\ Free(frame_lock)
    /\ frame_lock' = "P"
    /\ pcP' = "loop"
    /\ UNCHANGED <<render_buffers, frameVars, pending_sdl_thread_exit, event_lock,
                   keys, keys_lf, copy_i, pcE, pcR, halted, histVars>>

\* A take that clears ready_to_draw_new_frame alone and leaves
\* frame_available set.
sdl_thread_take_keeps_available ==
    /\ ~halted /\ pcP = "take" /\ Held(frame_lock, "P")
    /\ IF pending_sdl_thread_exit
       THEN /\ frame_lock' = "free"
            /\ pcP' = "done"
            /\ UNCHANGED <<ready_to_draw_new_frame, shown, prevShown, pe_calls>>
       ELSE /\ ready_to_draw_new_frame' = FALSE
            /\ shown' = frontSeq
            /\ prevShown' = shown
            /\ pe_calls' = 0
            /\ pcP' = "unlock"
            /\ UNCHANGED frame_lock
    /\ UNCHANGED <<render_buffers, back_buffer, front_buffer, frame_available,
                   pending_sdl_thread_exit, event_lock, keys, keys_lf, copy_i,
                   pcE, pcR, halted, pubSeq, frontSeq, signals, keys_seen,
                   prevFrontSeq, keys_read, edge_report>>

\* A take that tests frame_available before pending_sdl_thread_exit.
sdl_thread_take_frame_first ==
    /\ ~halted /\ pcP = "take" /\ Held(frame_lock, "P")
    /\ IF ~frame_available
       THEN /\ frame_lock' = "free"
            /\ pcP' = "done"
            /\ UNCHANGED <<frame_available, ready_to_draw_new_frame, shown,
                           prevShown, pe_calls>>
       ELSE /\ frame_available' = FALSE
            /\ ready_to_draw_new_frame' = FALSE
            /\ shown' = frontSeq
            /\ prevShown' = shown
            /\ pe_calls' = 0
            /\ pcP' = "unlock"
            /\ UNCHANGED frame_lock
    /\ UNCHANGED <<render_buffers, back_buffer, front_buffer,
                   pending_sdl_thread_exit, event_lock, keys, keys_lf, copy_i,
                   pcE, pcR, halted, pubSeq, frontSeq, signals, keys_seen,
                   prevFrontSeq, keys_read, edge_report>>

\* if (pending_sdl_thread_exit) { unlock; return; }
\* frame_available = ready_to_draw_new_frame = false;
sdl_thread_take ==
    /\ ~halted /\ pcP = "take" /\ Held(frame_lock, "P")
    /\ IF pending_sdl_thread_exit
       THEN /\ frame_lock' = "free"
            /\ pcP' = "done"
            /\ UNCHANGED <<frame_available, ready_to_draw_new_frame, shown,
                           prevShown, pe_calls>>
       ELSE /\ frame_available' = FALSE
            /\ ready_to_draw_new_frame' = FALSE
            /\ shown' = frontSeq
            /\ prevShown' = shown
            /\ pe_calls' = 0
            /\ pcP' = "unlock"
            /\ UNCHANGED frame_lock
    /\ UNCHANGED <<render_buffers, back_buffer, front_buffer,
                   pending_sdl_thread_exit, event_lock, keys, keys_lf, copy_i,
                   pcE, pcR, halted, pubSeq, frontSeq, signals, keys_seen,
                   prevFrontSeq, keys_read, edge_report>>

\* A loop that calls process_events without releasing frame_lock.
sdl_thread_unlock_keeps_lock ==
    /\ ~halted /\ pcP = "unlock" /\ Held(frame_lock, "P")
    /\ pcP' = "pe_lock"
    /\ UNCHANGED <<render_buffers, frameVars, frame_lock, pending_sdl_thread_exit,
                   event_lock, keys, keys_lf, copy_i, pcE, pcR, halted, histVars>>

\* An unlock after which the loop goes to the upload without calling
\* process_events.
sdl_thread_unlock_skips_events ==
    /\ ~halted /\ pcP = "unlock" /\ Held(frame_lock, "P")
    /\ frame_lock' = "free"
    /\ pcP' = "blit"
    /\ UNCHANGED <<render_buffers, frameVars, pending_sdl_thread_exit, event_lock,
                   keys, keys_lf, copy_i, pcE, pcR, halted, histVars>>

\* SDL_UnlockMutex(frame_lock)
sdl_thread_unlock ==
    /\ ~halted /\ pcP = "unlock" /\ Held(frame_lock, "P")
    /\ frame_lock' = "free"
    /\ pcP' = "pe_lock"
    /\ UNCHANGED <<render_buffers, frameVars, pending_sdl_thread_exit, event_lock,
                   keys, keys_lf, copy_i, pcE, pcR, halted, histVars>>

\* process_events: SDL_LockMutex(event_lock)
process_events_lock ==
    /\ ~halted /\ pcP = "pe_lock" /\ Free(event_lock)
    /\ event_lock' = "P"
    /\ pcP' = "pe_poll"
    /\ pe_calls' = pe_calls + 1
    /\ UNCHANGED <<render_buffers, frameVars, frame_lock, pending_sdl_thread_exit,
                   keys, keys_lf, copy_i, pcE, pcR, halted, pubSeq, frontSeq, shown,
                   prevShown, signals, keys_seen, prevFrontSeq, keys_read,
                   edge_report>>

\* while (SDL_PollEvent(&event)): the poll pumps the device, which rewrites
\* keys, and returns a window event, SDL_QUIT, or no event (end of loop).
process_events_poll(newkeys, ev) ==
    /\ ~halted /\ pcP = "pe_poll" /\ Held(event_lock, "P")
    /\ keys' = newkeys
    /\ keys_seen' = IF pcE = "ui_copy" THEN keys_seen \cup {newkeys} ELSE keys_seen
    /\ pending_sdl_thread_exit' = (pending_sdl_thread_exit \/ ev = "quit")
    /\ pcP' = IF ev = "none" THEN "pe_unlock" ELSE "pe_poll"
    /\ UNCHANGED <<render_buffers, frameVars, frame_lock, event_lock, keys_lf,
                   copy_i, pcE, pcR, halted, pubSeq, frontSeq, shown, prevShown,
                   signals, prevFrontSeq, keys_read, pe_calls, edge_report>>

\* process_events: SDL_UnlockMutex(event_lock)
process_events_unlock ==
    /\ ~halted /\ pcP = "pe_unlock" /\ Held(event_lock, "P")
    /\ event_lock' = "free"
    /\ pcP' = "blit"
    /\ UNCHANGED <<render_buffers, frameVars, frame_lock, pending_sdl_thread_exit,
                   keys, keys_lf, copy_i, pcE, pcR, halted, histVars>>

\* SDL_UpdateTexture(screen_tex, ..., front_buffer, ...) and SDL_RenderCopy:
\* reads the front buffer, without a lock.
sdl_thread_blit ==
    /\ ~halted /\ pcP = "blit"
    /\ pcP' = "present"
    /\ UNCHANGED <<render_buffers, frameVars, frame_lock, pending_sdl_thread_exit,
                   event_lock, keys, keys_lf, copy_i, pcE, pcR, halted, histVars>>

\* the debugger overlay and SDL_RenderPresent; then the loop starts again
sdl_thread_present ==
    /\ ~halted /\ pcP = "present"
    /\ pcP' = "lock"
    /\ UNCHANGED <<render_buffers, frameVars, frame_lock, pending_sdl_thread_exit,
                   event_lock, keys, keys_lf, copy_i, pcE, pcR, halted, histVars>>

\* ------------------------------------------------------- exit_sdl_thread
exit_sdl_thread_call ==
    /\ ~halted /\ pcR = "idle"
    /\ pcR' = "lock"
    /\ UNCHANGED <<render_buffers, frameVars, frame_lock, pending_sdl_thread_exit,
                   event_lock, keys, keys_lf, copy_i, pcE, pcP, halted, histVars>>

\* SDL_LockMutex(frame_lock)
exit_sdl_thread_lock ==
    /\ ~halted /\ pcR = "lock" /\ Free(frame_lock)
    /\ frame_lock' = "R"
    /\ pcR' = "cs"
    /\ UNCHANGED <<render_buffers, frameVars, pending_sdl_thread_exit, event_lock,
                   keys, keys_lf, copy_i, pcE, pcP, halted, histVars>>

\* exit_sdl_thread without its SDL_CondSignal.
exit_sdl_thread_no_signal ==
    /\ ~halted /\ pcR = "cs" /\ Held(frame_lock, "R")
    /\ pending_sdl_thread_exit' = TRUE
    /\ pcR' = "unlock"
    /\ UNCHANGED <<render_buffers, frameVars, frame_lock, event_lock, keys,
                   keys_lf, copy_i, pcE, pcP, halted, histVars>>

\* pending_sdl_thread_exit = true; SDL_CondSignal(frame_available_cond);
exit_sdl_thread_signal ==
    /\ ~halted /\ pcR = "cs" /\ Held(frame_lock, "R")
    /\ pending_sdl_thread_exit' = TRUE
    /\ CondSignal
    /\ pcR' = "unlock"
    /\ UNCHANGED <<render_buffers, frameVars, frame_lock, event_lock, keys,
                   keys_lf, copy_i, pcE, halted, pubSeq, frontSeq, shown, prevShown,
                   keys_seen, prevFrontSeq, keys_read, pe_calls, edge_report>>

\* SDL_UnlockMutex(frame_lock)
exit_sdl_thread_unlock ==
    /\ ~halted /\ pcR = "unlock" /\ Held(frame_lock, "R")
    /\ frame_lock' = "free"
    /\ pcR' = "done"
    /\ UNCHANGED <<render_buffers, frameVars, pending_sdl_thread_exit, event_lock,
                   keys, keys_lf, copy_i, pcE, pcP, halted, histVars>>

\* ------------------------------------------------------------------ spec
Next ==
    \/ \E p \in PixelInputs : put_pixel(p[1], p[2])
    \/ draw_frame_call
    \/ draw_frame_lock
    \/ draw_frame_publish
    \/ draw_frame_unlock
    \/ handle_ui_keys_call
    \/ handle_ui_keys_lock
    \/ handle_ui_keys_query(keys[SDL_SCANCODE_ESCAPE])
    \/ handle_ui_keys_unlock
    \/ handle_ui_keys_memcpy
    \/ sdl_thread_lock
    \/ sdl_thread_ready
    \/ sdl_thread_wait
    \/ sdl_thread_spurious
    \/ sdl_thread_woken
    \/ sdl_thread_take
    \/ sdl_thread_unlock
    \/ process_events_lock
    \/ \E nk \in KeyArrays, ev \in {"none", "window", "quit"} : process_events_poll(nk, ev)
    \/ process_events_unlock
    \/ sdl_thread_blit
    \/ sdl_thread_present
    \/ exit_sdl_thread_call
    \/ exit_sdl_thread_lock
    \/ exit_sdl_thread_signal
    \/ exit_sdl_thread_unlock

Spec == Init /\ [][Next]_vars

\* ------------------------------------------------------- fair scheduling
\* The handoff with the keyboard abstracted: the device leaves keys alone,
\* keys_lf starts as a copy of it, and each cycle of handle_ui_keys finds
\* Escape held or not, whatever keys holds. Every behaviour of Spec is, on
\* the variables other than keys, keys_lf and keys_seen, a behaviour of
\* FairInit /\ [][FairNext]_vars.
FairInit == Init /\ keys_lf = keys

FairNext ==
    \/ \E p \in PixelInputs : put_pixel(p[1], p[2])
    \/ draw_frame_call
    \/ draw_frame_lock
    \/ draw_frame_publish
    \/ draw_frame_unlock
    \/ handle_ui_keys_call
    \/ handle_ui_keys_lock
    \/ \E escape \in {0, 1} : handle_ui_keys_query(escape)
    \/ handle_ui_keys_unlock
    \/ handle_ui_keys_memcpy
    \/ sdl_thread_lock
    \/ sdl_thread_ready
    \/ sdl_thread_wait
    \/ sdl_thread_spurious
    \/ sdl_thread_woken
    \/ sdl_thread_take
    \/ sdl_thread_unlock
    \/ process_events_lock
    \/ \E ev \in {"none", "window", "quit"} : process_events_poll(keys, ev)
    \/ process_events_unlock
    \/ sdl_thread_blit
    \/ sdl_thread_present
    \/ exit_sdl_thread_call
    \/ exit_sdl_thread_lock
    \/ exit_sdl_thread_signal
    \/ exit_sdl_thread_unlock

\* A thread that waits for a mutex gets it if the mutex is free again and
\* again, and a thread that holds frame_lock goes on to release it. Nothing
\* is assumed of the calls the emulation thread and the caller of
\* exit_sdl_thread make, of spurious wake-ups, or of the SDL thread between
\* its release of frame_lock and the top of its loop.
Fairness ==
    /\ SF_vars(draw_frame_lock)
    /\ WF_vars(draw_frame_publish)
    /\ WF_vars(draw_frame_unlock)
    /\ SF_vars(sdl_thread_lock)
    /\ WF_vars(sdl_thread_ready)
    /\ WF_vars(sdl_thread_wait)
    /\ SF_vars(sdl_thread_woken)
    /\ WF_vars(sdl_thread_take)
    /\ WF_vars(sdl_thread_unlock)
    /\ SF_vars(exit_sdl_thread_lock)
    /\ WF_vars(exit_sdl_thread_signal)
    /\ WF_vars(exit_sdl_thread_unlock)

FairSpec == FairInit /\ [][FairNext]_vars /\ Fairness

\* ------------------------------------------------------- edge detection
\* The operators of the macros KEY_PRESSED and KEY_RELEASED on Uint8
\* values: ! gives 1 for 0 and 0 for anything else, & is the bitwise and.
LogicalNot(a) == IF a = 0 THEN 1 ELSE 0

RECURSIVE BitAnd(_, _)
BitAnd(a, b) ==
    IF a = 0 \/ b = 0 THEN 0
    ELSE (a % 2) * (b % 2) + 2 * BitAnd(a \div 2, b \div 2)

\* KEY_PRESSED written without the negation of keys_lf.
KEY_PRESSED_without_not(i) == BitAnd(keys[i], keys_lf[i])

\* #define KEY_PRESSED(i) ( (keys[i]) & (!keys_lf[i]) )
KEY_PRESSED(i) == BitAnd(keys[i], LogicalNot(keys_lf[i]))

\* #define KEY_RELEASED(i) ( (!keys[i]) & (keys_lf[i]) )
KEY_RELEASED(i) == BitAnd(LogicalNot(keys[i]), keys_lf[i])

\* The two macros taken alone, on a keyboard of three scancodes: every
\* pair of arrays of 0/1 values is an input, a cycle evaluates both macros
\* on every scancode and then commits keys to keys_lf, and the device
\* rewrites keys between cycles. One thread runs it all.
Codes == {0, 1, 2}
EdgeArrays == [Codes -> {0, 1}]

EdgeInit ==
    /\ render_buffers = [b \in {0, 1} |-> [c \in Cells |-> 0]]
    /\ back_buffer = 0
    /\ front_buffer = 1
    /\ frame_lock = "free"
    /\ ready_to_draw_new_frame = FALSE
    /\ frame_available = FALSE
    /\ pending_sdl_thread_exit = FALSE
    /\ event_lock = "free"
    /\ keys \in EdgeArrays
    /\ keys_lf \in EdgeArrays
    /\ copy_i = {}
    /\ pcE = "idle"
    /\ pcP = "lock"
    /\ pcR = "idle"
    /\ halted = FALSE
    /\ pubSeq = 0
    /\ frontSeq = 0
    /\ shown = 0
    /\ prevShown = 0
    /\ signals = 0
    /\ keys_seen = {}
    /\ prevFrontSeq = 0
    /\ keys_read = {}
    /\ pe_calls = 0
    /\ edge_report = [i \in Codes |-> <<0, 0>>]

\* The edge queries of one cycle, then memcpy(keys_lf, keys, keys_size).
edge_cycle ==
    /\ edge_report' = [i \in Codes |-> <<KEY_PRESSED(i), KEY_RELEASED(i)>>]
    /\ keys_lf' = keys
    /\ UNCHANGED <<render_buffers, frameVars, frame_lock, pending_sdl_thread_exit,
                   event_lock, keys, copy_i, pcE, pcP, pcR, halted, pubSeq, frontSeq,
                   shown, prevShown, signals, keys_seen, prevFrontSeq, keys_read,
                   pe_calls>>

\* The device rewrites keys.
edge_refresh ==
    /\ \E newkeys \in EdgeArrays : keys' = newkeys
    /\ UNCHANGED <<render_buffers, frameVars, frame_lock, pending_sdl_thread_exit,
                   event_lock, keys_lf, copy_i, pcE, pcP, pcR, halted, histVars>>

EdgeNext == edge_cycle \/ edge_refresh

EdgeSpec == EdgeInit /\ [][EdgeNext]_vars

\* ---------------------------------------------------------------- claims
\* The SDL thread has taken a frame and has not yet come back to the top
\* of its loop: frame_lock release, process_events, upload, present.
Presenting == pcP \in {"unlock", "pe_lock", "pe_poll", "pe_unlock", "blit", "present"}

\* The step of sdl_thread that takes a frame (resets the two flags).
TakeFrame == pcP = "take" /\ pcP' = "unlock"

\* The step of draw_frame that runs its critical section.
PublishStep == pcE = "df_cs" /\ pcE' = "df_unlock"

\* C1: from the step that hands the SDL thread a frame until the SDL thread
\* is back at the top of its loop, the buffer it reads (front_buffer) stays
\* the same buffer, is not the buffer put_pixel writes (back_buffer), and
\* no step writes into it.
C1_NoSharedBuffer ==
    [][Presenting =>
          /\ front_buffer' = front_buffer
          /\ back_buffer # front_buffer
          /\ render_buffers'[front_buffer] = render_buffers[front_buffer]]_vars

\* C1 witness: the SDL thread is uploading frame `shown` while put_pixel
\* has written, after a later draw_frame, a pixel of a newer frame.
C1_Witness ==
    /\ pcP = "blit" /\ shown >= 1
    /\ \E c \in Cells : render_buffers[back_buffer][c] >= shown + 2

\* C2 as stated: when the SDL thread is back at the top of its loop (its
\* next waitForFrame), the frame it observed is the one of the last
\* draw_frame call made so far.
C2_LastCallBeforeNextWait ==
    (pcP = "lock" /\ shown > 0) => shown = pubSeq

\* C2 amended: of the draw_frame calls between two takes of a frame, the
\* SDL thread observes the last one made before the take and no other: the
\* frame taken is the last call's, and while the SDL thread presents it the
\* front buffer is that frame's buffer and holds no pixel of a later frame.
C2_LastCallBeforeTake ==
    /\ [][TakeFrame => shown' = pubSeq]_vars
    /\ [](Presenting =>
             /\ frontSeq = shown
             /\ \A c \in Cells : render_buffers[front_buffer][c] <= shown)

\* C2 witness: two draw_frame calls were made with no take in between; the
\* SDL thread is uploading the second and never took the first.
C2_Witness ==
    /\ pcP = "blit" /\ shown = 2 /\ prevShown = 0
    /\ \E c \in Cells : render_buffers[front_buffer][c] = 2

\* C3: a take takes a frame that is available, that is the one of the most
\* recent draw_frame call, and that is newer than every frame taken before
\* (so a draw_frame call was made since the previous take, and no frame is
\* taken twice); the take leaves no frame available.
C3_OneFreshFramePerTake ==
    [][TakeFrame =>
          /\ frame_available /\ ~frame_available'
          /\ frontSeq = pubSeq
          /\ shown' = frontSeq
          /\ shown < shown']_vars

\* C3 witness: the SDL thread has taken a second frame, published after it
\* had taken the first.
C3_Witness == pcP = "unlock" /\ prevShown = 1 /\ shown = 2

\* C4: the SDL thread holds frame_lock only in the flag steps of its loop,
\* never while blocked in SDL_CondWait and never while presenting; and a
\* draw_frame that has been called returns, with nothing assumed of the
\* progress of the SDL thread while it presents.
C4_PublishNeverWaits ==
    /\ [](frame_lock = "P" => pcP \in {"ready", "loop", "take", "unlock"})
    /\ [](pcP = "wait" \/ (Presenting /\ pcP # "unlock") => frame_lock # "P")
    /\ (pcE = "df_lock") ~> (pcE = "idle")

\* C4 witness: draw_frame is in its critical section while the SDL thread
\* is presenting.
C4_Witness == pcE = "df_unlock" /\ frame_lock = "E" /\ pcP = "blit"

\* C5: a draw_frame made while ready_to_draw_new_frame is false changes
\* neither flag, neither buffer role, no pixel of the front buffer, and
\* signals nothing.
C5_DropHasNoEffect ==
    [][(PublishStep /\ ~ready_to_draw_new_frame) =>
          /\ UNCHANGED <<frame_available, ready_to_draw_new_frame,
                         back_buffer, front_buffer, signals, pcP>>
          /\ render_buffers'[front_buffer] = render_buffers[front_buffer]]_vars

\* C5 witness: draw_frame has just dropped a frame.
C5_Witness ==
    /\ pcE = "df_unlock" /\ ~ready_to_draw_new_frame
    /\ frontSeq < pubSeq

\* C6: when exit_sdl_thread runs its critical section while the SDL thread
\* is inside SDL_CondWait (blocked, or woken and waiting for frame_lock),
\* the SDL thread returns (unless the process exits first), with no
\* draw_frame call assumed.
C6_ShutdownWakesWaiter ==
    (pcP \in {"wait", "woken"} /\ pcR = "cs") ~> (pcP = "done" \/ halted)

\* C6 witness: the SDL thread has been woken with the exit flag set, and no
\* draw_frame was ever made.
C6_Witness ==
    /\ pcP = "woken" /\ pending_sdl_thread_exit /\ pcR = "unlock"
    /\ pubSeq = 0

\* C7: frame_available is set only by draw_frame's critical section and
\* only when ready_to_draw_new_frame is true, is cleared only by the take,
\* and implies ready_to_draw_new_frame.
C7_FrameAvailableDiscipline ==
    /\ [][(~frame_available /\ frame_available') =>
             (PublishStep /\ ready_to_draw_new_frame)]_vars
    /\ [][(frame_available /\ ~frame_available') => TakeFrame]_vars
    /\ [](frame_available => ready_to_draw_new_frame)

\* C7 witness: draw_frame has just made a frame available.
C7_Witness == pcE = "df_unlock" /\ frame_available /\ frontSeq = pubSeq

\* C8: back_buffer and front_buffer are the two buffers, one each; a
\* draw_frame made while ready_to_draw_new_frame is true exchanges them,
\* and no other step changes them.
C8_TwoBuffersExchanged ==
    /\ []({back_buffer, front_buffer} = {0, 1})
    /\ [][IF PublishStep /\ ready_to_draw_new_frame
          THEN back_buffer' = front_buffer /\ front_buffer' = back_buffer
          ELSE UNCHANGED <<back_buffer, front_buffer>>]_vars

\* C8 witness: the roles have been exchanged once.
C8_Witness == back_buffer = 1 /\ front_buffer = 0 /\ frontSeq = 1
\* C9 as stated: memcpy(keys_lf, keys, ...) runs with event_lock held by
\* the emulation thread.
C9_CommitUnderEventLock == pcE = "ui_copy" => event_lock = "E"

\* C10 as stated: when memcpy returns, keys_lf is a value keys had at one
\* instant of the copy.
C10_CommitIsSnapshot ==
    [][(pcE = "ui_copy" /\ pcE' = "idle") => keys_lf' \in keys_seen]_vars

\* C11: for every scancode and every pair of 0/1 values of keys[i] and
\* keys_lf[i], KEY_PRESSED(i) is true exactly when keys[i] = 1 and
\* keys_lf[i] = 0, KEY_RELEASED(i) is true exactly when keys[i] = 0 and
\* keys_lf[i] = 1, and the two are never both true; a cycle with
\* keys_lf = [1, 0, 1] and keys = [1, 1, 0] reports pressed at index 1,
\* released at index 2 and neither at index 0.
C11_EdgeTruthTable ==
    [][edge_cycle =>
          /\ \A i \in Codes :
                /\ (edge_report'[i][1] # 0) <=> (keys[i] = 1 /\ keys_lf[i] = 0)
                /\ (edge_report'[i][2] # 0) <=> (keys[i] = 0 /\ keys_lf[i] = 1)
                /\ ~(edge_report'[i][1] # 0 /\ edge_report'[i][2] # 0)
          /\ (keys_lf = [i \in Codes |-> IF i = 1 THEN 0 ELSE 1]
              /\ keys = [i \in Codes |-> IF i = 2 THEN 0 ELSE 1])
             => edge_report' = [i \in Codes |-> IF i = 0 THEN <<0, 0>>
                                                ELSE IF i = 1 THEN <<1, 0>>
                                                ELSE <<0, 1>>]]_vars

\* A cycle has run on keys_lf = [1, 0, 1] and keys = [1, 1, 0]: it has
\* reported the press of 1 and the release of 2, and committed keys.
C11_Witness ==
    /\ edge_report = [i \in Codes |-> IF i = 0 THEN <<0, 0>>
                                      ELSE IF i = 1 THEN <<1, 0>>
                                      ELSE <<0, 1>>]
    /\ keys_lf = [i \in Codes |-> IF i = 2 THEN 0 ELSE 1]
    /\ keys = keys_lf

\* draw_frame's critical section runs with ready_to_draw_new_frame set: the
\* frame is handed over.
AcceptedPublish == PublishStep /\ ready_to_draw_new_frame

C13_PublicationOrder ==
    /\ [][shown <= shown' /\ (TakeFrame => prevShown' = shown)]_vars
    /\ [](shown > 0 => prevShown < shown)
    /\ [](IF frame_available
          THEN shown < frontSeq /\ frontSeq <= pubSeq
          ELSE shown = frontSeq)

\* C13 witness: the SDL thread uploads frame 2 after it presented frame 1.
C13_Witness == pcP = "blit" /\ prevShown = 1 /\ shown = 2 /\ ~frame_available

\* C14: put_pixel called with x = width - 1 and y = height - 1 returns and
\* stores into exactly one cell, the cell width * y + x of the back
\* buffer, which is a cell of that buffer; called with x = width or with
\* y = height it fails an assert, the process aborts, and no cell of
\* either buffer is written.
C14_PutPixelBounds ==
    /\ [][put_pixel(ScreenW - 1, ScreenH - 1) =>
             /\ ~halted'
             /\ ScreenW * (ScreenH - 1) + (ScreenW - 1) \in 0 .. (BufferCells - 1)
             /\ render_buffers'[back_buffer][ScreenW * (ScreenH - 1) + (ScreenW - 1)]
                   = pubSeq + 1
             /\ \A b \in {0, 1} : \A c \in Cells :
                   render_buffers'[b][c] # render_buffers[b][c] =>
                      (b = back_buffer /\ c = ScreenW * (ScreenH - 1) + (ScreenW - 1))]_vars
    /\ [][(put_pixel(ScreenW, ScreenH - 1) \/ put_pixel(ScreenW - 1, ScreenH)) =>
             (halted' /\ UNCHANGED render_buffers)]_vars

\* C14 witness: a put_pixel call on the last pixel has stored it, and a
\* later call past a bound has aborted the process.
C14_Witness ==
    /\ halted /\ pcE = "idle"
    /\ render_buffers[back_buffer][PixelIndex(ScreenW - 1, ScreenH - 1)] = pubSeq + 1
    /\ render_buffers[front_buffer][PixelIndex(ScreenW - 1, ScreenH - 1)] = 0

\* C15: when handle_ui_keys makes its queries, in every cycle after the
\* first, keys_lf is the keys array as the queries of the previous cycle
\* read it; so a key the previous cycle read as 0 and this cycle reads as
\* 1 is reported by KEY_PRESSED, and one read as 1 and now read as 0 by
\* KEY_RELEASED, whatever process_events did in between.
C15_LastFrameIsWhatWasRead ==
    (pcE = "ui_keys" /\ keys_read # {}) =>
       /\ keys_read = {keys_lf}
       /\ \A r \in keys_read : \A k \in Scancodes :
             /\ (r[k] = 0 /\ keys[k] = 1) => KEY_PRESSED(k) # 0
             /\ (r[k] = 1 /\ keys[k] = 0) => KEY_RELEASED(k) # 0

\* C16: pending_sdl_thread_exit, once true, stays true; when it is true
\* the SDL thread's test of the wait condition does not wait, and the test
\* that follows returns from sdl_thread, also when frame_available is
\* true, without taking the frame or touching the flags; after it has
\* returned the SDL thread takes no frame, clears no flag, does not wait
\* and does not run process_events.
C16_ShutdownTerminal ==
    /\ [][pending_sdl_thread_exit => pending_sdl_thread_exit']_vars
    /\ [][(pending_sdl_thread_exit /\ pcP = "loop" /\ pcP' # "loop") =>
             pcP' = "take"]_vars
    /\ [][(pending_sdl_thread_exit /\ pcP = "take" /\ pcP' # "take") =>
             /\ pcP' = "done"
             /\ UNCHANGED <<frame_available, ready_to_draw_new_frame, shown,
                            prevShown, front_buffer, back_buffer>>]_vars
    /\ [][pcP = "done" =>
             /\ pcP' = "done"
             /\ frame_available => frame_available'
             /\ UNCHANGED <<ready_to_draw_new_frame, shown, prevShown, pe_calls>>]_vars
    /\ [](pcP = "done" => pending_sdl_thread_exit /\ frame_lock # "P")

\* C16 witness: the SDL thread has left its wait loop with both
\* pending_sdl_thread_exit and frame_available true, the frame published
\* while it waited, and is about to return.
C16_Witness ==
    /\ pcP = "take" /\ pending_sdl_thread_exit /\ frame_available
    /\ shown = 0 /\ frontSeq = 1

\* C17: the SDL thread calls process_events exactly once for each frame
\* it takes: after the take has cleared frame_available and
\* ready_to_draw_new_frame and frame_lock is released, and before the
\* upload of the front buffer; keys changes in no other place, so a
\* dropped draw_frame refreshes nothing, and nothing is refreshed while
\* the SDL thread waits for a frame.
C17_EventsOncePerFrame ==
    /\ [](pcP \in {"unlock", "pe_lock"} => pe_calls = 0)
    /\ [](pcP \in {"pe_poll", "pe_unlock", "blit", "present"} => pe_calls = 1)
    /\ [](pe_calls = IF shown > 0 /\ pcP \notin {"unlock", "pe_lock"} THEN 1 ELSE 0)
    /\ [](pcP \in {"pe_lock", "pe_poll", "pe_unlock"} =>
             ~frame_available /\ ~ready_to_draw_new_frame /\ frame_lock # "P")
    /\ [](event_lock = "P" <=> pcP \in {"pe_poll", "pe_unlock"})
    /\ [][keys' # keys => (pcP = "pe_poll" /\ event_lock = "P")]_vars
    /\ [][(PublishStep /\ ~ready_to_draw_new_frame) =>
             UNCHANGED <<keys, pe_calls, pcP, event_lock>>]_vars
    /\ [][(pcP \in {"lock", "ready", "loop", "wait", "woken", "take"}) =>
             (keys' = keys /\ event_lock' # "P")]_vars

\* C17 witness: the SDL thread has run process_events once for frame 1
\* and is presenting it; draw_frame call 2, made meanwhile, was dropped.
C17_Witness ==
    /\ pcP = "present" /\ pe_calls = 1
    /\ shown = 1 /\ frontSeq = 1 /\ pubSeq = 2

\* C18: no wake-up is lost: when a frame is available and shutdown has
\* not been requested, then, under fair scheduling, the SDL thread takes
\* a frame, unless shutdown is requested or the process exits first. A
\* draw_frame is accepted only while the SDL thread is inside SDL_CondWait
\* or has returned, so the frame is always published to a waiting thread.
C18_NoLostWakeup ==
    /\ [](frame_available => pcP \in {"wait", "woken", "loop", "take", "done"})
    /\ [][(AcceptedPublish /\ pcP # "done") =>
             (pcP \in {"wait", "woken"} /\ pcP' = "woken")]_vars
    /\ (frame_available /\ ~pending_sdl_thread_exit)
          ~> (pcP = "unlock" \/ pending_sdl_thread_exit \/ halted)

\* C18 witness: the SDL thread, woken by the signal of the first accepted
\* draw_frame, has taken that frame; no shutdown was requested.
C18_Witness ==
    /\ pcP = "unlock" /\ shown = 1 /\ signals = 1
    /\ ~pending_sdl_thread_exit /\ pcR = "idle"

\* A thread is blocked in SDL_LockMutex (or in the re-acquisition at the
\* end of SDL_CondWait) on a mutex that is held.
LockWaitE ==
    \/ pcE = "df_lock" /\ ~Free(frame_lock)
    \/ pcE = "ui_lock" /\ ~Free(event_lock)
LockWaitP ==
    \/ pcP \in {"lock", "woken"} /\ ~Free(frame_lock)
    \/ pcP = "pe_lock" /\ ~Free(event_lock)
LockWaitR == pcR = "lock" /\ ~Free(frame_lock)

\* C19: no thread holds frame_lock and event_lock at the same time, and
\* none waits for one of them while it holds the other; the holder of a
\* lock is inside the critical section of that lock, where it waits for
\* nothing; so in no state of the running process are all live threads
\* blocked on a lock.
C19_NoLockNesting ==
    /\ \A t \in {"E", "P", "R"} : ~(frame_lock = t /\ event_lock = t)
    /\ LockWaitE => (frame_lock # "E" /\ event_lock # "E")
    /\ LockWaitP => (frame_lock # "P" /\ event_lock # "P")
    /\ LockWaitR => frame_lock # "R"
    /\ frame_lock = "E" => pcE \in {"df_cs", "df_unlock"}
    /\ frame_lock = "P" => pcP \in {"ready", "loop", "take", "unlock"}
    /\ frame_lock = "R" => pcR \in {"cs", "unlock"}
    /\ event_lock = "E" => pcE \in {"ui_keys", "ui_unlock"}
    /\ event_lock = "P" => pcP \in {"pe_poll", "pe_unlock"}
    /\ ~halted => ~(/\ LockWaitE
                    /\ LockWaitP \/ pcP = "done"
                    /\ LockWaitR \/ pcR \in {"idle", "done"})

\* C19 witness: the two locks are held by two different threads while the
\* third waits for one of them.
C19_Witness ==
    /\ frame_lock = "R" /\ event_lock = "P"
    /\ pcE = "ui_lock" /\ LockWaitE

\* C20: when the first handle_ui_keys cycle makes its edge queries (none
\* has been made before), keys_lf is all 0; so KEY_PRESSED is 1 for
\* exactly the scancodes that are held and KEY_RELEASED is 0 for all.
C20_LastFrameStartsClear ==
    (pcE = "ui_keys" /\ keys_read = {}) =>
       /\ keys_lf = [k \in Scancodes |-> 0]
       /\ \A k \in Scancodes : KEY_PRESSED(k) = keys[k] /\ KEY_RELEASED(k) = 0
====
